---------------------------- MODULE Spec2Model ----------------------------
(***************************************************************************)
(* Model of the secure image delivery pipeline of web-qr-galore:           *)
(*   - SecureWebSocketService (src/src/services/websocket.ts): the channel *)
(*     manager, its sockets, its connect timeouts and reconnect timers;    *)
(*   - the Index component (src/unnamed/part_000): the orchestrator, its   *)
(*     React state and the handlers it registers on the service;           *)
(*   - CryptoService (src/src/services/crypto.ts): decryption and archive  *)
(*     extraction.                                                         *)
(* Every browser event (socket open, message, error, close, timer) and     *)
(* every user gesture is one action; an action runs its handler to the     *)
(* end, promise continuations (microtasks) included.                       *)
(***************************************************************************)
EXTENDS Integers, Sequences, FiniteSets, Bags, TLC

(***************************************************************************)
(* Bounds of the model.                                                    *)
(***************************************************************************)
\* WebSocket objects created over a run of the channel (one per connect call
\* whose constructor succeeds)
MaxSockets == 3
\* WebSocket objects created over a run in which no connection is ever established
MaxBudgetSockets == 4
\* WebSocket objects created over a run of the pipeline
MaxPipelineSockets == 2
\* decrypt/extract operations in flight at a time
MaxOps == 2
\* WebSocket objects created over a run of the service with endpoints that the
\* WebSocket constructor accepts and rejects
MaxServiceSockets == 2
\* WebSocket objects created over a run in which the timers are fair
MaxLiveSockets == 3
\* bytes of a plaintext that is encrypted and decrypted again
MaxPlainLen == 300
\* entries of an archive handed to the extractor
MaxEntries == 2

(***************************************************************************)
(* Program constants.                                                      *)
(***************************************************************************)
maxReconnectAttempts == 3
reconnectDelay == 1000
connectTimeoutMs == 10000

NoSocket == 0

\* AES block and IV (bytes), salt (bytes), the largest byte
BlockSize == 16
SaltSize == 8
ByteMax == 255

(***************************************************************************)
(* Values.  A URL is a scheme and a rest; the WebSocket constructor throws *)
(* on a scheme other than ws/wss.                                          *)
(***************************************************************************)
Url(scheme, rest) == [scheme |-> scheme, rest |-> rest]
NoUrl == Url("", "")

K1 == "k1"
K2 == "k2"
NoKey == ""
Keys == {K1, K2}

\* qrData: null, or { url, key? }.  An absent key and an empty key are both falsy.
NullDescriptor == [isNull |-> TRUE, url |-> NoUrl, key |-> NoKey]
Descriptor(u, k) == [isNull |-> FALSE, url |-> u, key |-> k]


(***************************************************************************)
(* CryptoService.  File names are sequences of one-character strings.      *)
(***************************************************************************)
LowerCase ==
  ( "A" :> "a" ) @@ ( "B" :> "b" ) @@ ( "C" :> "c" ) @@ ( "D" :> "d" ) @@ ( "E" :> "e" ) @@
  ( "F" :> "f" ) @@ ( "G" :> "g" ) @@ ( "H" :> "h" ) @@ ( "I" :> "i" ) @@ ( "J" :> "j" ) @@
  ( "K" :> "k" ) @@ ( "L" :> "l" ) @@ ( "M" :> "m" ) @@ ( "N" :> "n" ) @@ ( "O" :> "o" ) @@
  ( "P" :> "p" ) @@ ( "Q" :> "q" ) @@ ( "R" :> "r" ) @@ ( "S" :> "s" ) @@ ( "T" :> "t" ) @@
  ( "U" :> "u" ) @@ ( "V" :> "v" ) @@ ( "W" :> "w" ) @@ ( "X" :> "x" ) @@ ( "Y" :> "y" ) @@
  ( "Z" :> "z" )

Lower(c) == IF c \in DOMAIN LowerCase THEN LowerCase[c] ELSE c

toLowerCase(s) == [i \in DOMAIN s |-> Lower(s[i])]

\* String.prototype.lastIndexOf: 0-based index of the last occurrence, -1 when absent
lastIndexOf(s, c) ==
  LET hits == {i \in DOMAIN s : s[i] = c}
  IN  IF hits = {} THEN -1 ELSE (CHOOSE i \in hits : \A j \in hits : j <= i) - 1

\* String.prototype.substring(start): a negative start counts as 0
substring(s, start) ==
  LET from == IF start < 0 THEN 0 ELSE start
  IN  SubSeq(s, from + 1, Len(s))

fileExt(filename) == substring(toLowerCase(filename), lastIndexOf(filename, "."))

imageExtensions ==
  { <<".", "j", "p", "g">>, <<".", "j", "p", "e", "g">>, <<".", "p", "n", "g">>,
    <<".", "g", "i", "f">>, <<".", "b", "m", "p">>, <<".", "w", "e", "b", "p">>,
    <<".", "s", "v", "g">> }

\* isImageFile that compares the extension as it is spelt
isImageFile_CaseSensitive(filename) ==
  substring(filename, lastIndexOf(filename, ".")) \in imageExtensions

isImageFile(filename) == fileExt(filename) \in imageExtensions

mimeTypes ==
  ( <<".", "j", "p", "g">> :> "image/jpeg" ) @@
  ( <<".", "j", "p", "e", "g">> :> "image/jpeg" ) @@
  ( <<".", "p", "n", "g">> :> "image/png" ) @@
  ( <<".", "g", "i", "f">> :> "image/gif" ) @@
  ( <<".", "b", "m", "p">> :> "image/bmp" ) @@
  ( <<".", "w", "e", "b", "p">> :> "image/webp" ) @@
  ( <<".", "s", "v", "g">> :> "image/svg+xml" )

\* mimeTypes[ext] where the table has lost its entry for .webp
mimeLookup_NoWebp(filename) ==
  LET ext == fileExt(filename)
  IN  IF ext \in DOMAIN mimeTypes \ { <<".", "w", "e", "b", "p">> }
        THEN [found |-> TRUE, type |-> mimeTypes[ext]]
        ELSE [found |-> FALSE, type |-> ""]

\* mimeTypes[ext]: the entry of the table, or undefined
mimeLookup(filename) ==
  LET ext == fileExt(filename)
  IN  IF ext \in DOMAIN mimeTypes
        THEN [found |-> TRUE, type |-> mimeTypes[ext]]
        ELSE [found |-> FALSE, type |-> ""]

getMimeType(filename) ==
  LET entry == mimeLookup(filename)
  IN  IF entry.found THEN entry.type ELSE "image/jpeg"

\* An archive entry: its name, whether it is a directory, whether file.async()
\* delivers its bytes (it throws on a corrupt entry), and its content.
Entry(name, dir, readable, content) ==
  [name |-> name, dir |-> dir, readable |-> readable, content |-> content]

\* The outcome of one AES strategy: null, or the recovered bytes; the bytes are a
\* ZIP archive (its entries, names unique) or something JSZip.loadAsync rejects.
NoPlain == [isNull |-> TRUE, zip |-> FALSE, entries |-> << >>]
ZipPlain(entries) == [isNull |-> FALSE, zip |-> TRUE, entries |-> entries]
JunkPlain == [isNull |-> FALSE, zip |-> FALSE, entries |-> << >>]

\* An encrypted payload (ArrayBuffer) is described by what each strategy recovers
\* from it under each key.
decryptAES(encryptedData, key) == encryptedData.aes[key]

decryptAESWithSalt(encryptedData, passphrase) == encryptedData.salt[passphrase]

Failure(msg) == [success |-> FALSE, files |-> << >>, error |-> msg]
Success(files) == [success |-> TRUE, files |-> files, error |-> ""]

\* files[filename] = `data:${mimeType};base64,${base64}` for every accepted entry
\* whose bytes could be read
extractFiles(entries) ==
  LET ok == {i \in DOMAIN entries :
               /\ ~entries[i].dir
               /\ isImageFile(entries[i].name)
               /\ entries[i].readable}
      names == {entries[i].name : i \in ok}
  IN  [n \in names |->
         LET i == CHOOSE j \in ok : entries[j].name = n /\ \A l \in ok : entries[l].name = n => l <= j
         IN  [mime |-> getMimeType(n), base64 |-> entries[i].content]]

\* decryptStage with the passphrase+salt strategy tried first
decryptStage_SaltFirst(encryptedData, key) ==
  LET first == decryptAESWithSalt(encryptedData, key)
  IN  IF first.isNull
        THEN [strategies |-> <<"decryptAESWithSalt", "decryptAES">>,
              decryptedData |-> decryptAES(encryptedData, key)]
        ELSE [strategies |-> <<"decryptAESWithSalt">>, decryptedData |-> first]

\* The strategies decryptAndExtractZip calls, in the order of the calls, and the
\* decryptedData it is left with.
decryptStage(encryptedData, key) ==
  LET first == decryptAES(encryptedData, key)
  IN  IF first.isNull
        THEN [strategies |-> <<"decryptAES", "decryptAESWithSalt">>,
              decryptedData |-> decryptAESWithSalt(encryptedData, key)]
        ELSE [strategies |-> <<"decryptAES">>, decryptedData |-> first]

\* decryptAndExtractZip without the test for an empty file map
decryptAndExtractZip_NoEmptyTest(encryptedData, key) ==
  LET decryptedData == decryptStage(encryptedData, key).decryptedData
  IN  IF decryptedData.isNull THEN Failure("Failed to decrypt data")
      ELSE IF ~decryptedData.zip THEN Failure("Corrupted zip")
      ELSE Success(extractFiles(decryptedData.entries))

decryptAndExtractZip(encryptedData, key) ==
  LET decryptedData == decryptStage(encryptedData, key).decryptedData
  IN  IF decryptedData.isNull THEN Failure("Failed to decrypt data")
      ELSE IF ~decryptedData.zip THEN Failure("Corrupted zip")
      ELSE LET files == extractFiles(decryptedData.entries)
           IN  IF DOMAIN files = {} THEN Failure("No image files found in archive")
               ELSE Success(files)

(***************************************************************************)
(* Inputs: archives and encrypted payloads.                                *)
(***************************************************************************)
NameAPng == <<"a", ".", "p", "n", "g">>
NameBJpg == <<"b", ".", "J", "P", "G">>
NameTxt == <<"n", ".", "t", "x", "t">>

TwoImages == << Entry(NameAPng, FALSE, TRUE, "A"), Entry(NameBJpg, FALSE, TRUE, "B") >>
OnlyText == << Entry(NameTxt, FALSE, TRUE, "T") >>

OnlyUnder(k, plain) == [x \in Keys |-> IF x = k THEN plain ELSE NoPlain]
Nothing == [x \in Keys |-> NoPlain]

\* direct-key ciphertext of a 2-image archive under K1
PayloadDirectK1 == [aes |-> OnlyUnder(K1, ZipPlain(TwoImages)), salt |-> Nothing]
\* passphrase+salt ciphertext of a text-only archive under K1
PayloadSaltK1 == [aes |-> Nothing, salt |-> OnlyUnder(K1, ZipPlain(OnlyText))]
\* bytes neither strategy decrypts under any key
PayloadGarbage == [aes |-> Nothing, salt |-> Nothing]

Payloads == {PayloadDirectK1, PayloadSaltK1, PayloadGarbage}


\* Scanned strings.  "object": the text is JSON for an object with the given url,
\* endpoint and key fields (NoUrl: the field is absent or holds the empty string;
\* NoKey likewise); "text": the text is not JSON, url gives its scheme prefix and
\* its rest; "null": the text is the JSON null; "json": the text is JSON for a
\* number, a string, a boolean or an array.
ScanObjectWith(u, e, k) == [kind |-> "object", url |-> u, endpoint |-> e, key |-> k]
ScanObject(u, k) == ScanObjectWith(u, NoUrl, k)
ScanText(u) == [kind |-> "text", url |-> u, endpoint |-> NoUrl, key |-> NoKey]
ScanNull == [kind |-> "null", url |-> NoUrl, endpoint |-> NoUrl, key |-> NoKey]
ScanJson == [kind |-> "json", url |-> NoUrl, endpoint |-> NoUrl, key |-> NoKey]

ScanInputs ==
  { ScanObject(Url("wss", "h/p"), K1), ScanObject(Url("ws", "h/q"), K2),
    ScanObject(Url("wss", "h/p"), NoKey), ScanObject(Url("http", "h/r"), K1),
    ScanObject(NoUrl, K1), ScanText(Url("ws", "h/q")), ScanText(Url("", "hello")),
    ScanNull }

\* Inbound frames: a binary frame carries a payload; a text frame carries a text,
\* described by what JSON.parse makes of it.
BinaryFrame(p) == [binary |-> TRUE, payload |-> p, text |-> "-"]
TextFrame(t) == [binary |-> FALSE, payload |-> PayloadGarbage, text |-> t]
Texts == {"status", "error", "other_type", "zip_as_text", "json_null", "not_json"}
Frames == {BinaryFrame(p) : p \in Payloads} \cup {TextFrame(t) : t \in Texts}

\* The value JSON.parse returns for a text (it throws on "not_json").
\* data: "buffer" (an ArrayBuffer), "string" or "none".
Message(isObject, type, data, payload) ==
  [isObject |-> isObject, type |-> type, data |-> data, payload |-> payload]
JSONparse(t) ==
  CASE t = "status"      -> Message(TRUE, "status", "none", PayloadGarbage)
    [] t = "error"       -> Message(TRUE, "error", "none", PayloadGarbage)
    [] t = "other_type"  -> Message(TRUE, "foo", "none", PayloadGarbage)
    [] t = "zip_as_text" -> Message(TRUE, "encrypted_zip", "string", PayloadGarbage)
    [] t = "json_null"   -> Message(FALSE, "", "none", PayloadGarbage)

(***************************************************************************)
(* State.                                                                  *)
(***************************************************************************)
VARIABLES
  \* SecureWebSocketService
  ws,                 \* index into socks of this.ws, NoSocket for null
  url,
  reconnectAttempts,
  socks,              \* every WebSocket created so far, with the connect call that made it
  reconnectTimers,    \* bag of the pending reconnect timers: the delay of each, and
                      \* (history) whether disconnect() was called since it was set
                      \* with no connect call of the client after that
  \* Index component
  appState,
  connectionStatus,
  images,
  qrData,
  isProcessing,
  handlerQrData,      \* qrData as seen by the handlers registered by the effect
  ops,                \* bag of the decryptAndExtractZip calls in flight
  lastToast,          \* title of the latest toast
  \* history
  dispatch,           \* what the latest step handed to onMessage and onError, if it
                      \* was the delivery of a frame
  call                \* a call of a function of CryptoService or of parseQRData
                      \* studied on its own: its arguments and, once it has
                      \* returned, what it did

programVars == << ws, url, reconnectAttempts, socks, reconnectTimers, appState,
                  connectionStatus, images, qrData, isProcessing, handlerQrData, ops,
                  lastToast, dispatch >>

vars == << ws, url, reconnectAttempts, socks, reconnectTimers, appState,
           connectionStatus, images, qrData, isProcessing, handlerQrData, ops,
           lastToast, dispatch, call >>

\* dispatch: no frame was delivered by the latest step, or the frame, the messages
\* handed to onMessage for it and the errors handed to onError for it
NoDispatch == [frame |-> "none", messages |-> << >>, errors |-> << >>]

\* The state as one record, so that a handler is a function from state to state.
World ==
  [ ws |-> ws, url |-> url, reconnectAttempts |-> reconnectAttempts, socks |-> socks,
    reconnectTimers |-> reconnectTimers, appState |-> appState,
    connectionStatus |-> connectionStatus, images |-> images, qrData |-> qrData,
    isProcessing |-> isProcessing, handlerQrData |-> handlerQrData, ops |-> ops,
    lastToast |-> lastToast, dispatch |-> NoDispatch ]

Commit(w) ==
  /\ ws' = w.ws
  /\ url' = w.url
  /\ reconnectAttempts' = w.reconnectAttempts
  /\ socks' = w.socks
  /\ reconnectTimers' = w.reconnectTimers
  /\ appState' = w.appState
  /\ connectionStatus' = w.connectionStatus
  /\ images' = w.images
  /\ qrData' = w.qrData
  /\ isProcessing' = w.isProcessing
  /\ handlerQrData' = w.handlerQrData
  /\ ops' = w.ops
  /\ lastToast' = w.lastToast
  /\ dispatch' = w.dispatch
  /\ call' = call

NoImages == << >>

ProgramInit ==
  /\ ws = NoSocket
  /\ url = NoUrl
  /\ reconnectAttempts = 0
  /\ socks = << >>
  /\ reconnectTimers = EmptyBag
  /\ appState = "idle"
  /\ connectionStatus = "disconnected"
  /\ images = NoImages
  /\ qrData = NullDescriptor
  /\ isProcessing = FALSE
  /\ handlerQrData = NullDescriptor
  /\ ops = EmptyBag
  /\ lastToast = "none"
  /\ dispatch = NoDispatch

NoCall == [fn |-> "none", returned |-> FALSE]

Init == ProgramInit /\ call = NoCall


(***************************************************************************)
(* Index component: the handlers registered on the service.                *)
(***************************************************************************)
toast(w, title) == [w EXCEPT !.lastToast = title]

onStatusChange(w, status) ==
  LET w1 == [w EXCEPT !.connectionStatus = status]
  IN  IF status = "connected"
        THEN toast([w1 EXCEPT !.appState = "connected"], "Connected")
      ELSE IF status = "error"
        THEN toast([w1 EXCEPT !.appState = "idle"], "Connection Failed")
      ELSE w1

onError(w, error) ==
  toast([w EXCEPT !.dispatch.errors = IF w.dispatch.frame = "none" THEN @ ELSE Append(@, error)],
        "Connection Error")

\* finishDecrypt with the failure handled as a connection failure is: back to idle
finishDecrypt_FailureToIdle(w, result) ==
  LET w1 == IF result.success
              THEN toast([w EXCEPT !.images = result.files, !.appState = "viewing"],
                         "Images Loaded")
              ELSE toast([w EXCEPT !.appState = "idle"], "Decryption Failed")
  IN  [w1 EXCEPT !.isProcessing = FALSE]

\* The part of handleEncryptedData after its await: the result is published or
\* the failure reported.  (result.files is an object whenever result.success is
\* true, and an object is truthy, the empty one too.)
finishDecrypt(w, result) ==
  LET w1 == IF result.success
              THEN toast([w EXCEPT !.images = result.files, !.appState = "viewing"],
                         "Images Loaded")
              ELSE toast([w EXCEPT !.appState = "connected"], "Decryption Failed")
  IN  [w1 EXCEPT !.isProcessing = FALSE]

\* handleEncryptedData up to its await.  The handler is the one the effect
\* registered: it reads the qrData of the render that registered it.  When no
\* strategy decrypts, decryptAndExtractZip returns without waiting for anything
\* and the continuation runs before any other event; otherwise the call is in
\* flight until JSZip is done.
handleEncryptedData(w, encryptedData) ==
  IF w.handlerQrData.isNull \/ w.handlerQrData.key = NoKey
    THEN toast(w, "Missing Decryption Key")
    ELSE
      LET key == w.handlerQrData.key
          w1 == [w EXCEPT !.appState = "decrypting", !.isProcessing = TRUE]
          first == decryptAES(encryptedData, key)
          second == decryptAESWithSalt(encryptedData, key)
      IN  IF first.isNull /\ second.isNull
            THEN finishDecrypt(w1, decryptAndExtractZip(encryptedData, key))
            ELSE [w1 EXCEPT !.ops = @ (+) SetToBag({[data |-> encryptedData, key |-> key,
                                                      resetSince |-> FALSE]})]

\* wsService.onMessage.  Reading message.type of null throws inside the async
\* handler: the promise it returns is rejected and nothing else happens.
onMessage(w0, message) ==
  LET w == [w0 EXCEPT !.dispatch.messages = Append(@, message)]
  IN  IF ~message.isObject THEN w
      ELSE IF message.type = "encrypted_zip" /\ message.data = "buffer"
        THEN handleEncryptedData(w, message.payload)
      ELSE IF message.type = "error"
        THEN toast(w, "Server Error")
      ELSE w

(***************************************************************************)
(* SecureWebSocketService.                                                 *)
(***************************************************************************)
NewSocket(caller) ==
  [ readyState |-> "CONNECTING", established |-> FALSE, promise |-> "pending",
    timeout |-> TRUE, caller |-> caller ]

\* resolve() / reject() of the promise of connect call c.  Only the first call
\* settles it.  handleQRScan awaits the promise of its own call and sets the
\* state to idle when it is rejected; reconnect() swallows the rejection.
resolve(w, c) ==
  IF w.socks[c].promise = "pending"
    THEN [w EXCEPT !.socks[c].promise = "resolved"]
    ELSE w

reject(w, c) ==
  IF w.socks[c].promise = "pending"
    THEN LET w1 == [w EXCEPT !.socks[c].promise = "rejected"]
         IN  IF w.socks[c].caller = "user" THEN [w1 EXCEPT !.appState = "idle"] ELSE w1
    ELSE w

\* WebSocket.close(): a socket that is connecting or open starts closing
close(w, s) ==
  IF s # NoSocket /\ w.socks[s].readyState \in {"CONNECTING", "OPEN"}
    THEN [w EXCEPT !.socks[s].readyState = "CLOSING"]
    ELSE w

WebSocketThrows(u) == u.scheme \notin {"ws", "wss"}

connect(w, u, caller) ==
  LET w1 == onStatusChange([w EXCEPT !.url = u], "connecting")
  IN  IF WebSocketThrows(u)
        THEN LET w2 == onStatusChange(w1, "error")
             IN  IF caller = "user" THEN [w2 EXCEPT !.appState = "idle"] ELSE w2
        ELSE [w1 EXCEPT !.socks = Append(@, NewSocket(caller)),
                        !.ws = Len(w.socks) + 1]

\* (url, the URL in use when the timer was set, is history like the mark)
Timer(delay, u) == [delay |-> delay, url |-> u, disconnected |-> FALSE]

\* the bag of timers b with the history mark of each set to v
MarkTimers(b, v) ==
  LET marked == {[t EXCEPT !.disconnected = v] : t \in BagToSet(b)}
      Count(m) == CopiesIn([m EXCEPT !.disconnected = TRUE], b)
                    + CopiesIn([m EXCEPT !.disconnected = FALSE], b)
  IN  [m \in marked |-> Count(m)]

reconnect(w) ==
  LET n == w.reconnectAttempts + 1
  IN  [w EXCEPT !.reconnectAttempts = n,
                !.reconnectTimers = @ (+) SetToBag({Timer(reconnectDelay * n, w.url)})]

onopen(w, s) ==
  resolve(onStatusChange([w EXCEPT !.reconnectAttempts = 0], "connected"), s)

onmessage(w0, frame) ==
  LET w == [w0 EXCEPT !.dispatch.frame = IF frame.binary THEN "binary" ELSE frame.text]
  IN
  IF frame.binary
    THEN onMessage(w, Message(TRUE, "encrypted_zip", "buffer", frame.payload))
  ELSE IF frame.text = "not_json"
    THEN onError(w, "Failed to parse message")
  ELSE onMessage(w, JSONparse(frame.text))

onerror(w, s) ==
  reject(onError(onStatusChange(w, "error"), "Connection error"), s)

\* onclose with the budget test off by one
onclose_OffByOne(w, wasClean) ==
  LET w1 == onStatusChange(w, "disconnected")
  IN  IF ~wasClean /\ w1.reconnectAttempts < maxReconnectAttempts - 1
        THEN reconnect(w1)
        ELSE w1

onclose(w, wasClean) ==
  LET w1 == onStatusChange(w, "disconnected")
  IN  IF ~wasClean /\ w1.reconnectAttempts < maxReconnectAttempts
        THEN reconnect(w1)
        ELSE w1

\* the callback of the connection timeout armed by connect call c
connectTimeout(w, c) ==
  LET w1 == [w EXCEPT !.socks[c].timeout = FALSE]
  IN  IF w1.ws = NoSocket \/ w1.socks[w1.ws].readyState # "OPEN"
        THEN reject(close(w1, w1.ws), c)
        ELSE w1

\* disconnect that closes the socket and keeps the reference to it
disconnect_KeepsReference(w) ==
  LET w1 == IF w.ws # NoSocket THEN close(w, w.ws) ELSE w
  IN  onStatusChange([w1 EXCEPT !.reconnectTimers = MarkTimers(@, TRUE)], "disconnected")

\* disconnect that reports nothing when it holds no socket
disconnect_SilentWithoutSocket(w) ==
  IF w.ws # NoSocket
    THEN onStatusChange([close(w, w.ws) EXCEPT !.ws = NoSocket,
                                               !.reconnectTimers = MarkTimers(@, TRUE)],
                        "disconnected")
    ELSE [w EXCEPT !.reconnectTimers = MarkTimers(@, TRUE)]

\* (the mark set on the pending timers is history)
disconnect(w) ==
  LET w1 == IF w.ws # NoSocket THEN [close(w, w.ws) EXCEPT !.ws = NoSocket] ELSE w
  IN  onStatusChange([w1 EXCEPT !.reconnectTimers = MarkTimers(@, TRUE)], "disconnected")

\* parseQRData whose result for an object holds the url alone
parseQRData_DropsKey(raw) ==
  IF raw.kind \in {"text", "null"}
    THEN IF raw.kind = "text" /\ raw.url.scheme \in {"ws", "wss"}
           THEN Descriptor(raw.url, NoKey)
           ELSE NullDescriptor
  ELSE IF raw.kind = "object" /\ raw.url # NoUrl
    THEN Descriptor(raw.url, NoKey)
  ELSE NullDescriptor

\* The try block throws when JSON.parse rejects the text ("text") and when
\* parsed.url is read of null ("null"); the catch swallows both and tests the
\* prefix of the text.  Otherwise parsed is returned when parsed.url is truthy.
parseQRData(raw) ==
  IF raw.kind \in {"text", "null"}
    THEN IF raw.kind = "text" /\ raw.url.scheme \in {"ws", "wss"}
           THEN Descriptor(raw.url, NoKey)
           ELSE NullDescriptor
  ELSE IF raw.kind = "object" /\ raw.url # NoUrl
    THEN Descriptor(raw.url, raw.key)
  ELSE NullDescriptor

(***************************************************************************)
(* Index component: user gestures.                                         *)
(***************************************************************************)
\* (the mark cleared on the pending timers is history)
handleQRScan(w, result) ==
  LET parsedData == parseQRData(result)
  IN  IF parsedData.isNull
        THEN [toast(w, "Invalid QR Code") EXCEPT !.appState = "idle"]
        ELSE connect([w EXCEPT !.qrData = parsedData, !.appState = "connecting",
                               !.reconnectTimers = MarkTimers(@, FALSE)],
                     parsedData.url, "user")

\* the bag of operations ops with resetSince set in each
MarkReset(b) ==
  LET marked == {[op EXCEPT !.resetSince = TRUE] : op \in BagToSet(b)}
      Count(m) == LET reset == [m EXCEPT !.resetSince = TRUE]
                      fresh == [m EXCEPT !.resetSince = FALSE]
                  IN  CopiesIn(reset, b) + CopiesIn(fresh, b)
  IN  [m \in marked |-> Count(m)]

\* (resetSince is history: it marks the operations that were in flight at a reset)
resetApp(w) ==
  [disconnect(w) EXCEPT !.appState = "idle", !.images = NoImages,
                        !.qrData = NullDescriptor, !.isProcessing = FALSE,
                        !.ops = MarkReset(@)]

\* The effect's cleanup and its next run: disconnect, then the handlers of the
\* current render are registered.
effectRerun(w) == [disconnect(w) EXCEPT !.handlerQrData = w.qrData]

(***************************************************************************)
(* Actions.                                                                *)
(***************************************************************************)
Sockets == DOMAIN socks

\* the "Scan QR Code" button, shown in state idle
ClickScan ==
  /\ appState = "idle"
  /\ Commit([World EXCEPT !.appState = "scanning"])

\* the scanner's close button
ScannerClose ==
  /\ appState = "scanning"
  /\ Commit([World EXCEPT !.appState = "idle"])

\* the scanner reads a code; the scanner is mounted in state scanning only
HandleQRScanOn(inputs, maxSockets) ==
  /\ appState = "scanning"
  /\ \E raw \in inputs :
       /\ (~parseQRData(raw).isNull /\ ~WebSocketThrows(parseQRData(raw).url))
            => Len(socks) < maxSockets
       /\ Commit(handleQRScan(World, raw))

\* the Disconnect button (state connected) and the gallery's close button
\* (state viewing with images)
ResetApp ==
  /\ \/ appState = "connected"
     \/ appState = "viewing" /\ DOMAIN images # {}
  /\ Commit(resetApp(World))

\* The effect runs again when the identity of toast changes between renders.
\* useToast is not part of the sources read here, so whether that ever happens
\* is left open: the action may occur at any time or never.
EffectRerun == Commit(effectRerun(World))

SocketOpen ==
  \E s \in Sockets :
    /\ socks[s].readyState = "CONNECTING"
    /\ Commit(onopen([World EXCEPT !.socks[s].readyState = "OPEN",
                                   !.socks[s].established = TRUE], s))

\* a frame arrives on an open socket
Deliver(frame) ==
  /\ \E s \in Sockets : socks[s].readyState = "OPEN"
  /\ Commit(onmessage(World, frame))

SocketMessageOn(frames, maxOps) ==
  \E frame \in frames :
    /\ (frame.binary /\ ~handlerQrData.isNull /\ handlerQrData.key # NoKey)
         => BagCardinality(ops) < maxOps
    /\ Deliver(frame)

\* The connection of socket s ends.  A clean close needs an established
\* connection; an unclean one may be announced by an error event first.
CloseEvent(s, wasClean, withError) ==
  /\ socks[s].readyState \in {"CONNECTING", "OPEN", "CLOSING"}
  /\ wasClean => socks[s].established /\ ~withError
  /\ LET w0 == [World EXCEPT !.socks[s].readyState = "CLOSED",
                             !.socks[s].established = FALSE]
         w1 == IF withError THEN onerror(w0, s) ELSE w0
     IN  Commit(onclose(w1, wasClean))

SocketClose ==
  \E s \in Sockets, wasClean \in BOOLEAN, withError \in BOOLEAN :
    CloseEvent(s, wasClean, withError)

\* The close events of a browser that follows the WebSocket standard: the end of
\* a connection that was never established is a failure, and a failure fires
\* the error event before the close event.
SocketCloseOrFail ==
  \E s \in Sockets, wasClean \in BOOLEAN, withError \in BOOLEAN :
    /\ ~socks[s].established => withError
    /\ CloseEvent(s, wasClean, withError)

\* The connection timeout of connect call c fires.  Every call arms its timer with
\* the same delay, so the timers fire in the order of the calls.
ConnectTimeout ==
  \E c \in Sockets :
    /\ socks[c].timeout
    /\ \A b \in Sockets : b < c => ~socks[b].timeout
    /\ Commit(connectTimeout(World, c))

\* the callback of reconnect timer t
reconnectTimeout(w, t) ==
  LET w1 == [w EXCEPT !.reconnectTimers = @ (-) SetToBag({t})]
  IN  IF w1.reconnectAttempts <= maxReconnectAttempts
        THEN connect(w1, w1.url, "reconnect")
        ELSE w1

FireReconnect(t, maxSockets) ==
  /\ BagIn(t, reconnectTimers)
  /\ (reconnectAttempts <= maxReconnectAttempts /\ ~WebSocketThrows(url))
       => Len(socks) < maxSockets
  /\ Commit(reconnectTimeout(World, t))

ReconnectTimerOn(maxSockets) ==
  \E t \in BagToSet(reconnectTimers) : FireReconnect(t, maxSockets)

\* the decryptAndExtractZip call op returns
Complete(op) ==
  /\ BagIn(op, ops)
  /\ Commit(finishDecrypt([World EXCEPT !.ops = @ (-) SetToBag({op})],
                          decryptAndExtractZip(op.data, op.key)))

DecryptComplete == \E op \in BagToSet(ops) : Complete(op)

(***************************************************************************)
(* The channel: the service under the orchestrator's scans and resets, the *)
(* server sending no frame.                                                *)
(***************************************************************************)
ChannelScans == { ScanObject(Url("wss", "h/p"), K1), ScanNull }

ChannelScan == HandleQRScanOn(ChannelScans, MaxSockets)

ChannelReconnectTimer == ReconnectTimerOn(MaxSockets)

NextChannel ==
  \/ ClickScan
  \/ ScannerClose
  \/ ChannelScan
  \/ ResetApp
  \/ SocketOpen
  \/ SocketClose
  \/ ConnectTimeout
  \/ ChannelReconnectTimer

SpecChannel == Init /\ [][NextChannel]_vars

(***************************************************************************)
(* The service under scans of endpoints that the WebSocket constructor     *)
(* accepts (wss) and rejects (http).                                       *)
(***************************************************************************)
ServiceScans == { ScanObject(Url("wss", "h/p"), K1), ScanObject(Url("http", "h/r"), K1) }

ServiceScan == HandleQRScanOn(ServiceScans, MaxServiceSockets)

ServiceReconnectTimer == ReconnectTimerOn(MaxServiceSockets)

NextService ==
  \/ ClickScan
  \/ ScannerClose
  \/ ServiceScan
  \/ ResetApp
  \/ EffectRerun
  \/ SocketOpen
  \/ SocketClose
  \/ ConnectTimeout
  \/ ServiceReconnectTimer

SpecService == Init /\ [][NextService]_vars

(***************************************************************************)
(* The channel with fair timers: a timer that has been set fires.  Nothing *)
(* is asked of the user or of the network: a socket may stay CONNECTING    *)
(* for ever.                                                               *)
(***************************************************************************)
LiveScans == { ScanObject(Url("wss", "h/p"), K1) }

LiveScan == HandleQRScanOn(LiveScans, MaxLiveSockets)

LiveReconnectTimer == ReconnectTimerOn(MaxLiveSockets)

NextLive ==
  \/ ClickScan
  \/ ScannerClose
  \/ LiveScan
  \/ ResetApp
  \/ SocketOpen
  \/ SocketCloseOrFail
  \/ ConnectTimeout
  \/ LiveReconnectTimer

SpecLive ==
  /\ Init
  /\ [][NextLive]_vars
  /\ WF_vars(ConnectTimeout)
  /\ WF_vars(LiveReconnectTimer)

(***************************************************************************)
(* The reconnect budget: the channel when no connection is ever            *)
(* established, so that every socket ends in an unclean close.             *)
(***************************************************************************)
BudgetScans == { ScanObject(Url("wss", "h/p"), K1) }

BudgetScan == HandleQRScanOn(BudgetScans, MaxBudgetSockets)

BudgetReconnectTimer == ReconnectTimerOn(MaxBudgetSockets)

NextBudget ==
  \/ ClickScan
  \/ ScannerClose
  \/ BudgetScan
  \/ SocketClose
  \/ ConnectTimeout
  \/ BudgetReconnectTimer

SpecBudget == Init /\ [][NextBudget]_vars

(***************************************************************************)
(* The mounted component: the effect has run once, when the component was  *)
(* mounted, and the identity of toast never changes.  The server sends     *)
(* frames of every kind.                                                   *)
(***************************************************************************)
MountedScans ==
  { ScanObject(Url("wss", "h/p"), K1), ScanObject(Url("wss", "h/p"), NoKey),
    ScanText(Url("", "hello")) }

MountedScan == HandleQRScanOn(MountedScans, MaxPipelineSockets)

MountedReconnectTimer == ReconnectTimerOn(MaxPipelineSockets)

MountedMessage == SocketMessageOn(Frames, MaxOps)

NextMounted ==
  \/ ClickScan
  \/ ScannerClose
  \/ MountedScan
  \/ ResetApp
  \/ SocketOpen
  \/ MountedMessage
  \/ SocketClose
  \/ ConnectTimeout
  \/ MountedReconnectTimer

SpecMounted == Init /\ [][NextMounted]_vars

(***************************************************************************)
(* The pipeline: scans, the channel and the frames the server sends, over   *)
(* runs short enough for no connection timeout to fire.                    *)
(***************************************************************************)
PipelineScans == { ScanObject(Url("wss", "h/p"), K1) }

PipelineReconnectTimer == ReconnectTimerOn(MaxPipelineSockets)

BinaryFrames == {BinaryFrame(p) : p \in Payloads}

SocketMessage == SocketMessageOn(BinaryFrames, MaxOps)

PipelineStep(scans) ==
  \/ ClickScan
  \/ ScannerClose
  \/ HandleQRScanOn(scans, MaxPipelineSockets)
  \/ ResetApp
  \/ EffectRerun
  \/ SocketOpen
  \/ SocketMessage
  \/ SocketClose
  \/ PipelineReconnectTimer
  \/ DecryptComplete

NextPipeline == PipelineStep(PipelineScans)

SpecPipeline == Init /\ [][NextPipeline]_vars

(***************************************************************************)
(* The pipeline over sessions with and without a key.                      *)
(***************************************************************************)
RekeyScans ==
  { ScanObject(Url("wss", "h/p"), K1), ScanObject(Url("wss", "h/p"), NoKey) }

NextRekey == PipelineStep(RekeyScans)

SpecRekey == Init /\ [][NextRekey]_vars




(***************************************************************************)
(* CryptoService.decryptAndExtractZip on its own: one call, over archives  *)
(* of up to MaxEntries entries and over what the two strategies recover.   *)
(***************************************************************************)
NameCJpeg == <<"c", ".", "j", "p", "e", "g">>
NameDGif == <<"d", ".", "G", "i", "f">>
NameEBmp == <<"e", ".", "b", "m", "p">>
NameFWebp == <<"f", ".", "W", "e", "b", "P">>
NameGSvg == <<"g", ".", "s", "v", "g">>
NameDotPng == <<".", "p", "n", "g">>
NameNoDot == <<"p", "i", "c", "s">>
NamePngTxt == <<"a", ".", "p", "n", "g", ".", "t", "x", "t">>

EntryNames ==
  { NameAPng, NameBJpg, NameTxt, NameCJpeg, NameDGif, NameEBmp, NameFWebp, NameGSvg,
    NameDotPng, NameNoDot, NamePngTxt }

\* a file whose bytes can be read, a file whose bytes cannot, a directory
EntryPool ==
  UNION { { Entry(n, FALSE, TRUE, "x"), Entry(n, FALSE, FALSE, "x"), Entry(n, TRUE, TRUE, "") }
          : n \in EntryNames }

\* zipData.files is an object: the names of its entries are distinct
Archives ==
  { a \in UNION { [1..n -> EntryPool] : n \in 0..MaxEntries } :
      \A i, j \in DOMAIN a : a[i].name = a[j].name => i = j }

FewPlains == { NoPlain, JunkPlain, ZipPlain(TwoImages) }

Cipher(direct, salted) == [aes |-> OnlyUnder(K1, direct), salt |-> OnlyUnder(K1, salted)]

DecryptCall(encryptedData, key) ==
  [fn |-> "decryptAndExtractZip", returned |-> FALSE, encryptedData |-> encryptedData,
   key |-> key]

DecryptCalls ==
  { DecryptCall(Cipher(ZipPlain(a), NoPlain), K1) : a \in Archives }
    \cup { DecryptCall(Cipher(direct, salted), k) :
             direct \in FewPlains, salted \in FewPlains \cup {ZipPlain(OnlyText)}, k \in Keys }

InitExtract == ProgramInit /\ call \in DecryptCalls

\* the call returns: the strategies it called, the bytes it handed to JSZip and
\* its result
DecryptReturn ==
  /\ call.fn = "decryptAndExtractZip"
  /\ ~call.returned
  /\ LET stage == decryptStage(call.encryptedData, call.key)
     IN  call' = [fn |-> call.fn, returned |-> TRUE,
                  encryptedData |-> call.encryptedData, key |-> call.key,
                  strategies |-> stage.strategies, decryptedData |-> stage.decryptedData,
                  result |-> decryptAndExtractZip(call.encryptedData, call.key)]
  /\ UNCHANGED programVars

NextExtract == DecryptReturn

SpecExtract == InitExtract /\ [][NextExtract]_vars

(***************************************************************************)
(* parseQRData on its own: one call, over scanned strings.                 *)
(***************************************************************************)
ParseUrls == { Url("wss", "h/p"), Url("ws", "h/q"), Url("http", "h/r"), Url("", "hello") }

ParseInputs ==
  { ScanObjectWith(u, e, k) :
      u \in ParseUrls \cup {NoUrl}, e \in ParseUrls \cup {NoUrl}, k \in Keys \cup {NoKey} }
    \cup { ScanText(u) : u \in ParseUrls \cup {NoUrl} }
    \cup { ScanNull, ScanJson }

ParseCall(qrText) == [fn |-> "parseQRData", returned |-> FALSE, qrData |-> qrText]

InitParse == ProgramInit /\ call \in {ParseCall(qrText) : qrText \in ParseInputs}

ParseReturn ==
  /\ call.fn = "parseQRData"
  /\ ~call.returned
  /\ call' = [fn |-> call.fn, returned |-> TRUE, qrData |-> call.qrData,
              value |-> parseQRData(call.qrData)]
  /\ UNCHANGED programVars

NextParse == ParseReturn

SpecParse == InitParse /\ [][NextParse]_vars

(***************************************************************************)
(* The round trip of the passphrase+salt convention: the sender draws a    *)
(* salt, derives key and IV from passphrase and salt as decryptAESWithSalt *)
(* does, pads the plaintext (Pkcs7), encrypts it (AES-CBC) and sends salt  *)
(* and ciphertext; the receiver runs the decrypt stage on these bytes.     *)
(***************************************************************************)
\* Pkcs7.pad: 1 to BlockSize bytes are appended, each holding their number
PaddedLen(n) == (n \div BlockSize + 1) * BlockSize

\* What a strategy returns after CryptoJS.AES.decrypt has produced rawLen bytes
\* whose last one is lastByte.  Pkcs7.unpad subtracts the last byte from sigBytes
\* and does not look at the padding; new Uint8Array(sigBytes) throws on a negative
\* length and the catch of the strategy returns null; otherwise the strategy
\* returns the first sigBytes bytes (bytes stands for them).
unpad(rawLen, lastByte, bytes) ==
  IF rawLen - lastByte < 0 THEN NoPlain ELSE bytes

\* The bytes on the wire for plain (n bytes long) under passphrase, described by
\* what each strategy recovers.  decryptAESWithSalt under the passphrase gets
\* the padded plaintext back.  decryptAES reads the first BlockSize bytes as IV and
\* uses the key string as key: the bytes it gets are unrelated to the plaintext
\* and their last one, lastByte, is any byte; so are those of decryptAESWithSalt
\* under another passphrase.
SaltedCiphertext(plain, n, passphrase, lastByte) ==
  [ aes  |-> [x \in Keys |-> unpad(SaltSize + PaddedLen(n) - BlockSize, lastByte, JunkPlain)],
    salt |-> [x \in Keys |->
                IF x = passphrase
                  THEN unpad(PaddedLen(n), PaddedLen(n) - n, plain)
                  ELSE unpad(PaddedLen(n), lastByte, JunkPlain)] ]

\* the plaintext is an archive
RoundTripPlains == { ZipPlain(TwoImages), ZipPlain(OnlyText) }

RoundTripCall(plain, n, lastByte) ==
  [fn |-> "roundTrip", returned |-> FALSE, plain |-> plain, plainLen |-> n,
   passphrase |-> K1, lastByte |-> lastByte]

InitRoundTrip ==
  /\ ProgramInit
  /\ call \in { RoundTripCall(plain, n, b) :
                  plain \in RoundTripPlains, n \in 0..MaxPlainLen, b \in 0..ByteMax }

\* the decrypt stage of decryptAndExtractZip returns on the bytes of the sender
RoundTripReturn ==
  /\ call.fn = "roundTrip"
  /\ ~call.returned
  /\ LET encryptedData == SaltedCiphertext(call.plain, call.plainLen, call.passphrase,
                                           call.lastByte)
         stage == decryptStage(encryptedData, call.passphrase)
     IN  call' = [fn |-> call.fn, returned |-> TRUE, plain |-> call.plain,
                  plainLen |-> call.plainLen, passphrase |-> call.passphrase,
                  lastByte |-> call.lastByte, strategies |-> stage.strategies,
                  decryptedData |-> stage.decryptedData]
  /\ UNCHANGED programVars

NextRoundTrip == RoundTripReturn

SpecRoundTrip == InitRoundTrip /\ [][NextRoundTrip]_vars

(***************************************************************************)
(* Claims.                                                                 *)
(***************************************************************************)
LiveSockets == {s \in DOMAIN socks : socks[s].readyState \in {"CONNECTING", "OPEN"}}

\* connect calls made by reconnect() that created a socket
AutoConnects == {s \in DOMAIN socks : socks[s].caller = "reconnect"}

\* every socket is closed and no reconnect timer is pending
Quiescent ==
  /\ socks # << >>
  /\ \A s \in DOMAIN socks : socks[s].readyState = "CLOSED"
  /\ reconnectTimers = EmptyBag

C2_DisconnectCancelsReconnect ==
  [][ \A t \in BagToSet(reconnectTimers) :
        (t.disconnected /\ FireReconnect(t, MaxSockets)) => socks' = socks ]_vars

\* C3 (the claim as stated): at most one WebSocket is CONNECTING or OPEN.  (The
\* service never detaches a handler from a socket.)
C3_SingleLiveSocket == Cardinality(LiveSockets) <= 1

HasKey(d) == ~d.isNull /\ d.key # NoKey

\* operations a payload can be in flight as
InFlight == [data : Payloads, key : Keys, resetSince : BOOLEAN]

\* C4 (the claim as stated): a binary payload that arrives in state connected,
\* the descriptor holding a key under which the payload decrypts and extracts,
\* starts a decrypt operation with the descriptor's key and moves the state to
\* decrypting; when a successful operation returns, the state is viewing and
\* images is the extracted set.
C4_HappyPath ==
  [][ /\ \A p \in Payloads :
           ( /\ appState = "connected"
             /\ HasKey(qrData)
             /\ decryptAndExtractZip(p, qrData.key).success
             /\ Deliver(BinaryFrame(p)) )
           => /\ appState' = "decrypting"
              /\ \E op \in BagToSet(ops') :
                   /\ op.data = p
                   /\ op.key = qrData.key
                   /\ CopiesIn(op, ops') = CopiesIn(op, ops) + 1
      /\ \A op \in InFlight :
           (decryptAndExtractZip(op.data, op.key).success /\ Complete(op))
           => /\ appState' = "viewing"
              /\ images' = decryptAndExtractZip(op.data, op.key).files ]_vars

\* C5 (the claim as stated): the return of an operation that was in flight when
\* resetApp ran publishes nothing: images is unchanged and the state does not
\* become viewing.
C5_ResetDiscardsInFlight ==
  [][ \A op \in InFlight :
        (op.resetSince /\ Complete(op))
        => /\ images' = images
           /\ appState' = "viewing" => appState = "viewing" ]_vars

\* C6 (the claim as stated): at most one decryptAndExtractZip call is in flight.
C6_OneOperationAtATime == BagCardinality(ops) <= 1

\* C7: resetApp, run in any reachable state, leaves the state idle, this.ws null
\* with the socket it held no longer connecting or open, the status
\* 'disconnected', images empty and qrData null.
C7_ResetLeavesIdle ==
  LET w == resetApp(World)
  IN  /\ w.appState = "idle"
      /\ w.ws = NoSocket
      /\ ws # NoSocket => w.socks[ws].readyState \in {"CLOSING", "CLOSED"}
      /\ w.connectionStatus = "disconnected"
      /\ w.images = NoImages
      /\ w.qrData = NullDescriptor

\* a reset has run while an operation was in flight, and nothing happened since
C7_Witness ==
  /\ \E op \in BagToSet(ops) : op.resetSince
  /\ appState = "idle"
  /\ ws = NoSocket
  /\ \E s \in DOMAIN socks : socks[s].readyState = "CLOSING"
  /\ images = NoImages
  /\ qrData = NullDescriptor
  /\ connectionStatus = "disconnected"

\* what C8 says of the state w that the report of a failure leaves
FailureReported(w) ==
  /\ w.appState = "connected"
  /\ w.lastToast = "Decryption Failed"
  /\ w.ws = ws
  /\ w.socks = socks
  /\ w.connectionStatus = connectionStatus
  /\ w.images = images

\* C8: when decryptAndExtractZip fails, be it at once (no strategy decrypts) or
\* on the return of an operation in flight, the state becomes connected, the
\* failure is reported, the channel is left as it is and images is unchanged:
\* in every reachable state, of the return of every failing operation in flight
\* and of the arrival of every payload that fails under the handler's key.
C8_FailureBackToConnected ==
  /\ \A op \in BagToSet(ops) :
        LET result == decryptAndExtractZip(op.data, op.key)
        IN  ~result.success =>
              FailureReported(finishDecrypt([World EXCEPT !.ops = @ (-) SetToBag({op})],
                                            result))
  /\ \A p \in Payloads :
        (HasKey(handlerQrData) /\ ~decryptAndExtractZip(p, handlerQrData.key).success)
        => LET w == onmessage(World, BinaryFrame(p))
           IN  \/ FailureReported(w)
               \/ /\ w.appState = "decrypting"
                  /\ BagCardinality(w.ops) = BagCardinality(ops) + 1
                  /\ FailureReported(finishDecrypt(w, decryptAndExtractZip(p, handlerQrData.key)))

\* a failure has just been reported on an open channel that holds images
C8_Witness ==
  /\ lastToast = "Decryption Failed"
  /\ appState = "connected"
  /\ ~isProcessing
  /\ ws # NoSocket
  /\ socks[ws].readyState = "OPEN"
  /\ DOMAIN images # {}

C10_InboundDispatch ==
  dispatch.frame # "none" =>
    LET one == Len(dispatch.messages) = 1 /\ dispatch.errors = << >>
        m == dispatch.messages[1]
    IN  CASE dispatch.frame = "binary" ->
               one /\ m.isObject /\ m.type = "encrypted_zip" /\ m.data = "buffer"
          [] dispatch.frame \in {"status", "error"} ->
               one /\ m.isObject /\ m.type = dispatch.frame
          [] OTHER ->
               \/ one /\ m.isObject /\ m.type = "error"
               \/ dispatch.messages = << >> /\ Len(dispatch.errors) = 1

\* the names of EntryNames that the allow-list of the extractor admits: the part
\* from the last '.' on, lower-cased, is .jpg, .jpeg, .png, .gif, .bmp, .webp or .svg
AllowedNames ==
  { NameAPng, NameBJpg, NameCJpeg, NameDGif, NameEBmp, NameFWebp, NameGSvg, NameDotPng }

\* the non-directory entries of archive a whose name is allowed
Accepted(a) == {i \in DOMAIN a : ~a[i].dir /\ a[i].name \in AllowedNames}

AcceptedNames(a) == {a[i].name : i \in Accepted(a)}

\* the call has returned after handing an archive to the extractor
Extracted ==
  /\ call.fn = "decryptAndExtractZip"
  /\ call.returned
  /\ call.decryptedData.zip

\* C11 (the claim as stated): a successful result holds every non-directory
\* entry with an allowed extension, and when the processing of such an entry
\* fails the result is no success.
C11_AllOrNothing ==
  Extracted =>
    LET a == call.decryptedData.entries
    IN  /\ call.result.success => DOMAIN call.result.files = AcceptedNames(a)
        /\ (\E i \in Accepted(a) : ~a[i].readable) => ~call.result.success

\* C12: a successful result has a non-empty file map; an archive with no accepted
\* entry gives the failure 'No image files found in archive'; and what the
\* orchestrator publishes for the result is never empty.
C12_NeverEmptyOnSuccess ==
  (call.fn = "decryptAndExtractZip" /\ call.returned) =>
    /\ call.result.success => DOMAIN call.result.files # {}
    /\ (call.decryptedData.zip /\ Accepted(call.decryptedData.entries) = {})
         => /\ ~call.result.success
            /\ call.result.error = "No image files found in archive"
    /\ LET w == finishDecrypt(World, call.result)
       IN  w.appState = "viewing" => DOMAIN w.images # {}

\* an archive of a text file and a directory named like an image was extracted
C12_Witness ==
  /\ Extracted
  /\ Len(call.decryptedData.entries) = 2
  /\ \E i \in DOMAIN call.decryptedData.entries : call.decryptedData.entries[i].dir
  /\ Accepted(call.decryptedData.entries) = {}
  /\ call.result.error = "No image files found in archive"

\* C13: when the bytes of every accepted entry can be read, the files of the
\* result are exactly the accepted entries, the entries skipped never make the
\* extraction fail, and the result is a failure only when nothing is accepted.
C13_AcceptedEntries ==
  (Extracted /\ \A i \in Accepted(call.decryptedData.entries) :
                   call.decryptedData.entries[i].readable) =>
    LET a == call.decryptedData.entries
    IN  /\ call.result.success <=> Accepted(a) # {}
        /\ call.result.success => DOMAIN call.result.files = AcceptedNames(a)
        /\ ~call.result.success => call.result.error = "No image files found in archive"

\* an archive of one .png and one .txt entry has given exactly one file
C13_Witness ==
  /\ Extracted
  /\ {call.decryptedData.entries[i].name : i \in DOMAIN call.decryptedData.entries}
       = {NameAPng, NameTxt}
  /\ \A i \in DOMAIN call.decryptedData.entries :
       ~call.decryptedData.entries[i].dir /\ call.decryptedData.entries[i].readable
  /\ call.result.success
  /\ DOMAIN call.result.files = {NameAPng}

\* C14: decryptAES is called first; decryptAESWithSalt is called, after it, if and
\* only if decryptAES returned null; the bytes handed on are those of the first
\* strategy that returned any; the result is 'Failed to decrypt data' if and only
\* if both returned null.
C14_StrategyOrder ==
  (call.fn = "decryptAndExtractZip" /\ call.returned) =>
    LET direct == decryptAES(call.encryptedData, call.key)
        salted == decryptAESWithSalt(call.encryptedData, call.key)
    IN  /\ call.strategies[1] = "decryptAES"
        /\ (\E i \in DOMAIN call.strategies : call.strategies[i] = "decryptAESWithSalt")
             <=> direct.isNull
        /\ Len(call.strategies) <= 2
        /\ call.decryptedData = IF direct.isNull THEN salted ELSE direct
        /\ (~call.result.success /\ call.result.error = "Failed to decrypt data")
             <=> (direct.isNull /\ salted.isNull)

\* decryptAES returned null and the bytes of decryptAESWithSalt were extracted
C14_Witness ==
  /\ call.fn = "decryptAndExtractZip"
  /\ call.returned
  /\ decryptAES(call.encryptedData, call.key).isNull
  /\ call.strategies = <<"decryptAES", "decryptAESWithSalt">>
  /\ call.decryptedData.zip
  /\ call.result.success

Parsed == call.fn = "parseQRData" /\ call.returned

\* the text is not JSON and starts with ws:// or wss://
BareUri(raw) == raw.kind = "text" /\ raw.url.scheme \in {"ws", "wss"}

SameButStatus(w, v) ==
  [w EXCEPT !.connectionStatus = "disconnected", !.reconnectTimers = MarkTimers(@, TRUE)]
    = [v EXCEPT !.connectionStatus = "disconnected", !.reconnectTimers = MarkTimers(@, TRUE)]

\* C16 (the claim as stated): in every reachable state disconnect() leaves ws null
\* and the status 'disconnected'; with no socket held it changes nothing, the
\* status included; a second disconnect() changes nothing.
C16_DisconnectNoOp ==
  LET w == disconnect(World)
  IN  /\ w.ws = NoSocket
      /\ w.connectionStatus = "disconnected"
      /\ ws = NoSocket => (SameButStatus(w, World) /\ w.connectionStatus = connectionStatus)
      /\ disconnect(w) = w

\* C16 (amended): in every reachable state disconnect() leaves ws null, the socket
\* it held closing or closed, and the status 'disconnected'; with no socket held
\* it changes nothing but the status; a second disconnect() changes nothing.
C16_DisconnectIdempotent ==
  LET w == disconnect(World)
  IN  /\ w.ws = NoSocket
      /\ ws # NoSocket => w.socks[ws].readyState \in {"CLOSING", "CLOSED"}
      /\ w.connectionStatus = "disconnected"
      /\ ws = NoSocket => SameButStatus(w, World)
      /\ disconnect(w) = w

\* disconnect() has run with no socket held and the status 'error' before it:
\* the constructor rejected the scanned endpoint, no socket was ever created,
\* and the cleanup of the effect called disconnect()
C16_Witness ==
  /\ ws = NoSocket
  /\ connectionStatus = "disconnected"
  /\ appState = "idle"
  /\ qrData # NullDescriptor
  /\ lastToast = "Connection Failed"
  /\ socks = << >>

\* C17: every step of the Disconnect button (resetApp, which calls disconnect())
\* leaves the reconnect attempt counter at 0.
C17_DisconnectClearsCounter == [][ResetApp => reconnectAttempts' = 0]_vars

\* C18: in every reachable state, the timeout callback of a connect call whose
\* socket never opened leaves the status 'error' and the promise of the call
\* rejected; so does an error event of a socket, for a promise that was pending;
\* and an open event resolves the promise with the status 'connected'.
C18_TimeoutOrErrorReported ==
  \A c \in Sockets :
    /\ ( /\ socks[c].timeout
         /\ \A b \in Sockets : b < c => ~socks[b].timeout
         /\ socks[c].readyState # "OPEN"
         /\ socks[c].promise # "resolved" )
         => LET w == connectTimeout(World, c)
            IN  w.connectionStatus = "error" /\ w.socks[c].promise = "rejected"
    /\ socks[c].readyState \in {"CONNECTING", "OPEN", "CLOSING"}
         => LET w == onerror([World EXCEPT !.socks[c].readyState = "CLOSED",
                                           !.socks[c].established = FALSE], c)
            IN  w.connectionStatus = "error" /\ w.socks[c].promise # "pending"
    /\ socks[c].readyState = "CONNECTING"
         => LET w == onopen([World EXCEPT !.socks[c].readyState = "OPEN",
                                          !.socks[c].established = TRUE], c)
            IN  w.connectionStatus = "connected" /\ w.socks[c].promise = "resolved"

\* C19: in every reachable state with reconnect attempts left, an error event of
\* a socket is not surfaced: it leaves the status other than 'error', and the
\* state and the last notification of the orchestrator as they were.
C19_FaultsHiddenWithinBudget ==
  \A s \in Sockets :
    (socks[s].readyState \in {"CONNECTING", "OPEN", "CLOSING"}
       /\ reconnectAttempts < maxReconnectAttempts)
      => LET w == onerror([World EXCEPT !.socks[s].readyState = "CLOSED",
                                        !.socks[s].established = FALSE], s)
         IN  /\ w.connectionStatus # "error"
             /\ w.appState = appState
             /\ w.lastToast = lastToast

\* C20: in every reachable state, an error event of a socket while the state is
\* connecting leaves the state idle; a payload that arrives while the handler
\* holds no key is reported as a missing key and leaves the state connected; the
\* return of a failing operation leaves the state connected; and none of these
\* reports leaves the state connecting or decrypting.
C20_ErrorsLeaveStableState ==
  /\ \A s \in Sockets :
       socks[s].readyState \in {"CONNECTING", "OPEN", "CLOSING"}
         => LET w == onerror([World EXCEPT !.socks[s].readyState = "CLOSED",
                                           !.socks[s].established = FALSE], s)
            IN  /\ appState = "connecting" => w.appState = "idle"
                /\ w.appState \notin {"connecting", "decrypting"}
  /\ \A p \in Payloads :
       ((\E s \in Sockets : socks[s].readyState = "OPEN") /\ ~HasKey(handlerQrData))
         => LET w == onmessage(World, BinaryFrame(p))
            IN  w.lastToast = "Missing Decryption Key" /\ w.appState = "connected"
  /\ \A op \in BagToSet(ops) :
       LET result == decryptAndExtractZip(op.data, op.key)
       IN  ~result.success
             => finishDecrypt([World EXCEPT !.ops = @ (-) SetToBag({op})], result).appState
                  = "connected"

\* C21: in every reachable state, the close event that ends the current
\* connection without recovery (a clean close by the server, or an unclean close
\* with no reconnect attempt left) leaves the state idle and images empty.
C21_ClosedChannelResetsSession ==
  \A wasClean \in BOOLEAN :
    ( /\ ws # NoSocket
      /\ socks[ws].readyState \in {"CONNECTING", "OPEN"}
      /\ wasClean => socks[ws].established
      /\ wasClean \/ reconnectAttempts >= maxReconnectAttempts )
      => LET w == onclose([World EXCEPT !.socks[ws].readyState = "CLOSED",
                                        !.socks[ws].established = FALSE], wasClean)
         IN  w.appState = "idle" /\ w.images = NoImages

\* C22: when the decrypt stage returns on a plaintext encrypted under the
\* passphrase+salt convention, the direct-key strategy was called first and
\* returned null, the passphrase+salt strategy was called next, and the bytes
\* handed to the extractor are the plaintext.
C22_SaltedRoundTrip ==
  (call.fn = "roundTrip" /\ call.returned) =>
    /\ call.strategies = <<"decryptAES", "decryptAESWithSalt">>
    /\ call.decryptedData = call.plain

\* C23: in every reachable state, an unclean close with attempts left adds one
\* timer, its delay reconnectDelay times the number n of the attempt (the
\* attempts made since the last open, plus one), n being 1, 2 or 3 and the delay
\* larger than that of the attempt before; and the connect call of a timer that
\* fires targets the URL that was in use when the timer was set.
C23_LinearBackoff ==
  /\ \A s \in Sockets :
       (socks[s].readyState \in {"CONNECTING", "OPEN", "CLOSING"}
          /\ reconnectAttempts < maxReconnectAttempts)
         => LET w == onclose([World EXCEPT !.socks[s].readyState = "CLOSED",
                                           !.socks[s].established = FALSE], FALSE)
                n == reconnectAttempts + 1
            IN  /\ n \in 1..maxReconnectAttempts
                /\ w.reconnectAttempts = n
                /\ w.reconnectTimers = reconnectTimers (+) SetToBag({Timer(reconnectDelay * n, url)})
                /\ reconnectDelay * n > reconnectDelay * reconnectAttempts
  /\ \A t \in BagToSet(reconnectTimers) :
       /\ t.delay \in {reconnectDelay * n : n \in 1..maxReconnectAttempts}
       /\ reconnectAttempts <= maxReconnectAttempts
            => reconnectTimeout(World, t).url = t.url

\* C24: in every reachable state, a clean close event leaves reconnectAttempts
\* and the pending timers as they were, and so does every close event of a
\* socket that disconnect() has closed.  (Where no connection timeout fires, a
\* socket is CLOSING only because disconnect() called close() on it.)
C24_OnlyUncleanReconnects ==
  \A s \in Sockets, wasClean \in BOOLEAN :
    ( /\ socks[s].readyState \in {"CONNECTING", "OPEN", "CLOSING"}
      /\ wasClean => socks[s].established
      /\ wasClean \/ socks[s].readyState = "CLOSING" )
      => LET w == onclose([World EXCEPT !.socks[s].readyState = "CLOSED",
                                        !.socks[s].established = FALSE], wasClean)
         IN  /\ w.reconnectAttempts = reconnectAttempts
             /\ w.reconnectTimers = reconnectTimers

\* C25: when decryptAndExtractZip returns on an archive, the MIME table has an
\* entry for the extension of every entry isImageFile accepts, and the type of
\* every file in the result is that entry, never the default.
C25_MimeTableCoversAllowList ==
  Extracted =>
    \A i \in DOMAIN call.decryptedData.entries :
      LET e == call.decryptedData.entries[i]
      IN  (~e.dir /\ isImageFile(e.name))
            => /\ mimeLookup(e.name).found
               /\ e.name \in DOMAIN call.result.files
                    => call.result.files[e.name].mime = mimeLookup(e.name).type

\* a .webp and a .JPG were extracted: image/webp, and image/jpeg from the table
C25_Witness ==
  /\ Extracted
  /\ call.result.success
  /\ DOMAIN call.result.files = {NameFWebp, NameBJpg}
  /\ call.result.files[NameFWebp].mime = "image/webp"
  /\ call.result.files[NameBJpg].mime = "image/jpeg"
  /\ mimeLookup(NameBJpg).found

\* C26: in every reachable state, the timeout callback of connect call c changes
\* no socket but the one that call created, and changes nothing at all when that
\* socket is closed or when disconnect() has left this.ws null.
C26_TimeoutActsOnOwnAttempt ==
  \A c \in Sockets :
    (socks[c].timeout /\ \A b \in Sockets : b < c => ~socks[b].timeout)
      => LET w == connectTimeout(World, c)
         IN  /\ \A s \in Sockets \ {c} : w.socks[s] = socks[s]
             /\ (socks[c].readyState = "CLOSED" \/ ws = NoSocket)
                  => w = [World EXCEPT !.socks[c].timeout = FALSE]

\* C27: every step that brings the state to connected starts in state connecting
\* or decrypting.
C27_ConnectedOnlyFromConnecting ==
  [][ (appState' = "connected" /\ appState # "connected")
        => appState \in {"connecting", "decrypting"} ]_vars

\* C28: with fair timers, the promise of every connect call is settled in the
\* end, and the state connecting leads to connected or idle.
C28_ConnectSettles ==
  /\ \A c \in 1..MaxLiveSockets :
       (c \in DOMAIN socks /\ socks[c].promise = "pending")
         ~> (c \in DOMAIN socks /\ socks[c].promise # "pending")
  /\ (appState = "connecting") ~> (appState \in {"connected", "idle"})

\* C29: every descriptor parseQRData returns has a URL that starts with ws:// or
\* wss://.
C29_DescriptorSchemeChecked ==
  (Parsed /\ ~call.value.isNull) => call.value.url.scheme \in {"ws", "wss"}

=============================================================================
